---------------------------- MODULE Spec2Model ----------------------------
(***************************************************************************)
(* Model of the upload / article / clean_cache handlers of src/main.rs and *)
(* of the shared AppState they work on.  Every request is a process that   *)
(* runs on its own worker thread; a step of the model is one access to the *)
(* shared state (a mutex acquisition with the work done under it, one file *)
(* system call, one item of the multipart stream).                         *)
(***************************************************************************)
EXTENDS Integers, Sequences, FiniteSets, TLC

(* ------------------------------ bounds -------------------------------- *)

\* number of requests that can be in progress at the same time
NumProcs == 2
\* number of different request bodies the clients upload
NumBodies == 2

Procs == 1..NumProcs
\* the values of one body byte
Bytes == {0, 1}
\* file names a client can put in the content disposition of a field
Names == {"a.zim"}
\* the request bodies the clients upload: a body, a body it is a prefix of,
\* the same bytes in another order, the empty body
AllBodies == << <<0>>, <<0, 1>>, <<1, 0>>, <<>> >>
Bodies == {AllBodies[i] : i \in 1..NumBodies}

(* --------------------------- pure functions --------------------------- *)

\* the strict prefixes of a byte sequence
StrictPrefixes(s) == {SubSeq(s, 1, n) : n \in 0..(Len(s) - 1)}

\* the non-empty chunks the transport can deliver after the bytes in data
NextChunks(data) ==
    UNION {{SubSeq(b, Len(data) + 1, n) : n \in (Len(data) + 1)..Len(b)} :
             b \in {c \in Bodies : data \in StrictPrefixes(c)}}

\* Sha256::new(): the digest state before any byte
Sha256New == 0

\* hasher.update(&chunk): folds the bytes of the chunk, in order, into the
\* digest state.  The digest is collision free on the bounded inputs: the
\* state is the bijective base-(|Bytes|+1) numeral of the bytes seen so far.
RECURSIVE Sha256Update(_, _)
Sha256Update(h, chunk) ==
    IF chunk = <<>> THEN h
    ELSE Sha256Update(h * (Cardinality(Bytes) + 1) + Head(chunk) + 1, Tail(chunk))

\* hex::encode(hasher.finalize())
HashOf(hasher) == hasher

\* uploads_dir.join(format!("{}.zim", hash))
PersistedPath(hash) == [dir |-> "./uploads", stem |-> hash, ext |-> "zim"]

\* Option<T>: None and Some(x)
None == {}
Some(x) == {x}
Unwrap(o) == CHOOSE x \in o : TRUE

\* original_file_name.unwrap_or_else(|| "unknown.zim")
UnwrapOrDefaultName(o) == IF o = None THEN "unknown.zim" ELSE Unwrap(o)

\* HashMap::insert
Insert(m, k, v) == [x \in DOMAIN m \cup {k} |-> IF x = k THEN v ELSE m[x]]
\* an empty HashMap
EmptyMap == [x \in {} |-> x]
\* the values of a HashMap
Values(m) == {m[k] : k \in DOMAIN m}
\* the map m without the keys outside S
Restrict(m, S) == [x \in DOMAIN m \cap S |-> m[x]]

(* ------------------------------- state -------------------------------- *)

VARIABLES
    dirExists,         \* ./uploads exists
    files,             \* the regular files of ./uploads: path -> bytes
    processed_bytes,   \* AppState.processed_bytes
    uploaded_files,    \* AppState.uploaded_files: original name -> path
    current_zim_path,  \* AppState.current_zim_path: Option<PathBuf>
    file_cache,        \* AppState.file_cache: hash -> path
    mutex,             \* holder of each of the three Mutexes, 0 when free
    req,               \* the requests in progress: position and locals of each
    response,          \* the outcome of the request that returned last
    cleanRan           \* history: a clean_cache request has arrived

vars == <<dirExists, files, processed_bytes, uploaded_files, current_zim_path,
          file_cache, mutex, req, response, cleanRan>>

shared == <<uploaded_files, current_zim_path, file_cache>>

Locks == {"uploaded_files", "current_zim_path", "file_cache"}

\* a worker that runs no request
Idle == [pc |-> "idle", original_file_name |-> None, hasher |-> Sha256New,
         file_data |-> <<>>]

\* std::sync::Mutex: lock() blocks while another thread holds the guard
CanLock(l) == mutex[l] = 0
Lock(m, l, p) == [m EXCEPT ![l] = p]
\* dropping the guards in S
Unlock(m, S) == [l \in Locks |-> IF l \in S THEN 0 ELSE m[l]]

\* request p goes on at position pc
Goto(p, pc) ==
    /\ req' = [req EXCEPT ![p].pc = pc]
    /\ UNCHANGED response
\* request p returns outcome r and its locals are dropped
Return(p, r) ==
    /\ req' = [req EXCEPT ![p] = Idle]
    /\ response' = r

\* the hash of the body request p has read
hash(p) == HashOf(req[p].hasher)
persisted_path(p) == PersistedPath(hash(p))

\* a lookup that never finds the entry
CacheGetMisses(cache, h) == None

\* file_cache_guard.get(&hash)
CacheGet(cache, h) == IF h \in DOMAIN cache THEN Some(cache[h]) ELSE None

(* ------------------------------- Init --------------------------------- *)

\* main() on an empty working directory: ./uploads is created, the scan
\* finds no file, and the AppState is built from empty maps
Init ==
    /\ dirExists = TRUE
    /\ files = EmptyMap
    /\ processed_bytes = 0
    /\ uploaded_files = EmptyMap
    /\ current_zim_path = None
    /\ file_cache = EmptyMap
    /\ mutex = [l \in Locks |-> 0]
    /\ req = [p \in Procs |-> Idle]
    /\ response = "none"
    /\ cleanRan = FALSE

(* ------------------------------ upload -------------------------------- *)

\* POST /upload arrives: the counter is reset and ./uploads is looked for
UploadStart(p) ==
    /\ req[p].pc = "idle"
    /\ processed_bytes' = 0
    /\ Goto(p, IF dirExists THEN "next_field" ELSE "create_dir")
    /\ UNCHANGED <<dirExists, files, shared, mutex, cleanRan>>

\* fs::create_dir(uploads_dir)?: fails when the directory exists by now, or
\* on a storage error
CreateDir(p) ==
    /\ req[p].pc = "create_dir"
    /\ \/ /\ ~dirExists
          /\ dirExists' = TRUE
          /\ Goto(p, "next_field")
       \/ /\ Return(p, "upload_500")
          /\ UNCHANGED dirExists
    /\ UNCHANGED <<files, processed_bytes, shared, mutex, cleanRan>>

\* payload.next().await: the end of the body, a malformed field, or a field
\* whose content disposition may carry a file name
NextField(p) ==
    /\ req[p].pc = "next_field"
    /\ \/ /\ req[p].file_data \in Bodies
          /\ Goto(p, "lock_file_cache")
       \/ Return(p, "transport_error")
       \/ \E fn \in {None} \cup {Some(n) : n \in Names} :
            /\ req' = [req EXCEPT ![p].pc = "next_chunk",
                                  ![p].original_file_name =
                                      IF @ = None /\ fn # None THEN fn ELSE @]
            /\ UNCHANGED response
    /\ UNCHANGED <<dirExists, files, processed_bytes, shared, mutex, cleanRan>>

\* a chunk step that streams the chunk into the stored file as it arrives
ChunkOkStreamsToFile(p, chunk) ==
    /\ req' = [req EXCEPT ![p].hasher = Sha256Update(@, chunk),
                          ![p].file_data = @ \o chunk]
    /\ processed_bytes' = processed_bytes + Len(chunk)
    /\ files' = Insert(files, persisted_path(p), req[p].file_data \o chunk)
    /\ UNCHANGED <<dirExists, shared, mutex, response, cleanRan>>

\* a chunk step that counts the chunk, not its bytes
ChunkOkCountsChunks(p, chunk) ==
    /\ req' = [req EXCEPT ![p].hasher = Sha256Update(@, chunk),
                          ![p].file_data = @ \o chunk]
    /\ processed_bytes' = processed_bytes + 1
    /\ UNCHANGED <<dirExists, files, shared, mutex, response, cleanRan>>

\* the chunk is hashed, buffered and counted; nothing is written to storage
ChunkOk(p, chunk) ==
    /\ req' = [req EXCEPT ![p].hasher = Sha256Update(@, chunk),
                          ![p].file_data = @ \o chunk]
    /\ processed_bytes' = processed_bytes + Len(chunk)
    /\ UNCHANGED <<dirExists, files, shared, mutex, response, cleanRan>>

\* field.next().await: the end of the field, a chunk error, or a chunk
NextChunk(p) ==
    /\ req[p].pc = "next_chunk"
    /\ \/ /\ Goto(p, "next_field")
          /\ UNCHANGED <<dirExists, files, processed_bytes, shared, mutex, cleanRan>>
       \/ /\ Return(p, "transport_error")
          /\ UNCHANGED <<dirExists, files, processed_bytes, shared, mutex, cleanRan>>
       \/ \E chunk \in NextChunks(req[p].file_data) : ChunkOk(p, chunk)

\* the hash is finalized, file_cache is locked and looked up; on a hit the
\* cached archive is opened for its article count
CacheLookup(p) ==
    /\ req[p].pc = "lock_file_cache"
    /\ CanLock("file_cache")
    /\ mutex' = Lock(mutex, "file_cache", p)
    /\ Goto(p, IF CacheGet(file_cache, hash(p)) # None
               THEN "hit_lock_path" ELSE "file_create")
    /\ UNCHANGED <<dirExists, files, processed_bytes, shared, cleanRan>>

\* hit: current_zim_path is locked and set to the cached path, the request
\* returns "File found in cache" and both guards are dropped
HitSetPath(p) ==
    /\ req[p].pc = "hit_lock_path"
    /\ CanLock("current_zim_path")
    /\ current_zim_path' = CacheGet(file_cache, hash(p))
    /\ mutex' = Unlock(mutex, {"file_cache"})
    /\ Return(p, "cached")
    /\ UNCHANGED <<dirExists, files, processed_bytes, uploaded_files, file_cache,
                   cleanRan>>

\* File::create(&persisted_path) succeeds: the file exists and is empty,
\* whatever it held before
FileCreateOk(p) ==
    /\ dirExists
    /\ files' = Insert(files, persisted_path(p), <<>>)
    /\ Goto(p, "write_all")
    /\ UNCHANGED <<dirExists, processed_bytes, shared, mutex, cleanRan>>

\* File::create(&persisted_path) fails (no directory, or a storage error):
\* the request returns a server error and the file_cache guard is dropped
FileCreateErr(p) ==
    /\ Return(p, "upload_500")
    /\ mutex' = Unlock(mutex, {"file_cache"})
    /\ UNCHANGED <<dirExists, files, processed_bytes, shared, cleanRan>>

FileCreate(p) ==
    /\ req[p].pc = "file_create"
    /\ FileCreateOk(p) \/ FileCreateErr(p)

\* write_all(&file_data) succeeds and the new archive is opened for its
\* article count; a file unlinked since its creation stays unlinked
WriteAllOk(p) ==
    /\ files' = IF persisted_path(p) \in DOMAIN files
                THEN Insert(files, persisted_path(p), req[p].file_data)
                ELSE files
    /\ Goto(p, "lock_uploaded_files")
    /\ UNCHANGED <<dirExists, processed_bytes, shared, mutex, cleanRan>>

\* a failing write_all whose entry was put in file_cache before the write
WriteAllErrAfterInsert(p) ==
    /\ \E part \in StrictPrefixes(req[p].file_data) :
         files' = IF persisted_path(p) \in DOMAIN files
                  THEN Insert(files, persisted_path(p), part)
                  ELSE files
    /\ file_cache' = Insert(file_cache, hash(p), persisted_path(p))
    /\ Return(p, "upload_500")
    /\ mutex' = Unlock(mutex, {"file_cache"})
    /\ UNCHANGED <<dirExists, processed_bytes, uploaded_files, current_zim_path,
                   cleanRan>>

\* write_all(&file_data) fails after part of the bytes: the request returns
\* a server error, the file keeps what was written
WriteAllErr(p) ==
    /\ \E part \in StrictPrefixes(req[p].file_data) :
         files' = IF persisted_path(p) \in DOMAIN files
                  THEN Insert(files, persisted_path(p), part)
                  ELSE files
    /\ Return(p, "upload_500")
    /\ mutex' = Unlock(mutex, {"file_cache"})
    /\ UNCHANGED <<dirExists, processed_bytes, shared, cleanRan>>

WriteAll(p) ==
    /\ req[p].pc = "write_all"
    /\ WriteAllOk(p) \/ WriteAllErr(p)

\* uploaded_files is locked (file_cache still held) and the entry inserted
LockUploadedFiles(p) ==
    /\ req[p].pc = "lock_uploaded_files"
    /\ CanLock("uploaded_files")
    /\ mutex' = Lock(mutex, "uploaded_files", p)
    /\ uploaded_files' = Insert(uploaded_files,
                                UnwrapOrDefaultName(req[p].original_file_name),
                                persisted_path(p))
    /\ Goto(p, "lock_current_path")
    /\ UNCHANGED <<dirExists, files, processed_bytes, current_zim_path, file_cache,
                   cleanRan>>

\* current_zim_path is locked (uploaded_files and file_cache still held) and
\* set; the block ends and drops the two inner guards
LockCurrentPath(p) ==
    /\ req[p].pc = "lock_current_path"
    /\ CanLock("current_zim_path")
    /\ current_zim_path' = Some(persisted_path(p))
    /\ mutex' = Unlock(mutex, {"uploaded_files"})
    /\ Goto(p, "insert_cache")
    /\ UNCHANGED <<dirExists, files, processed_bytes, uploaded_files, file_cache,
                   cleanRan>>

\* file_cache_guard.insert(hash, persisted_path); the request returns
\* "File uploaded successfully" and the file_cache guard is dropped
InsertCache(p) ==
    /\ req[p].pc = "insert_cache"
    /\ file_cache' = Insert(file_cache, hash(p), persisted_path(p))
    /\ mutex' = Unlock(mutex, {"file_cache"})
    /\ Return(p, "uploaded")
    /\ UNCHANGED <<dirExists, files, processed_bytes, uploaded_files,
                   current_zim_path, cleanRan>>

Upload(p) ==
    \/ UploadStart(p) \/ CreateDir(p) \/ NextField(p) \/ NextChunk(p)
    \/ CacheLookup(p) \/ HitSetPath(p) \/ FileCreate(p) \/ WriteAll(p)
    \/ LockUploadedFiles(p) \/ LockCurrentPath(p) \/ InsertCache(p)

(* ---------------------------- clean_cache ----------------------------- *)

\* POST /clean_cache arrives
CleanStart(p) ==
    /\ req[p].pc = "idle"
    /\ Goto(p, "clean_exists")
    /\ cleanRan' = TRUE
    /\ UNCHANGED <<dirExists, files, processed_bytes, shared, mutex>>

\* uploads_dir.exists(): without the directory the request answers 200
\* "Cache directory not found, nothing to clean"
CleanExists(p) ==
    /\ req[p].pc = "clean_exists"
    /\ IF dirExists THEN Goto(p, "remove_dir_all")
                    ELSE Return(p, "nothing_to_clean")
    /\ UNCHANGED <<dirExists, files, processed_bytes, shared, mutex, cleanRan>>

\* fs::remove_dir_all(uploads_dir) succeeds: the directory and its files
\* are gone; no lock is held
RemoveDirAllOk(p) ==
    /\ dirExists
    /\ dirExists' = FALSE
    /\ files' = EmptyMap
    /\ Goto(p, "clean_lock_files")
    /\ UNCHANGED <<processed_bytes, shared, mutex, cleanRan>>

\* a failing remove_dir_all after which the in-memory state is cleared all
\* the same
RemoveDirAllErrClears(p) ==
    /\ \E kept \in SUBSET DOMAIN files : files' = Restrict(files, kept)
    /\ uploaded_files' = EmptyMap
    /\ current_zim_path' = None
    /\ file_cache' = EmptyMap
    /\ Return(p, "clean_500")
    /\ UNCHANGED <<dirExists, processed_bytes, mutex, cleanRan>>

\* fs::remove_dir_all(uploads_dir) fails (the directory is gone by now, or
\* a storage error after some of the files were deleted): the request
\* answers 500 and touches nothing else
RemoveDirAllErr(p) ==
    /\ \E kept \in SUBSET DOMAIN files : files' = Restrict(files, kept)
    /\ Return(p, "clean_500")
    /\ UNCHANGED <<dirExists, processed_bytes, shared, mutex, cleanRan>>

RemoveDirAll(p) ==
    /\ req[p].pc = "remove_dir_all"
    /\ RemoveDirAllOk(p) \/ RemoveDirAllErr(p)

\* uploaded_files is locked and cleared
CleanLockFiles(p) ==
    /\ req[p].pc = "clean_lock_files"
    /\ CanLock("uploaded_files")
    /\ mutex' = Lock(mutex, "uploaded_files", p)
    /\ uploaded_files' = EmptyMap
    /\ Goto(p, "clean_lock_path")
    /\ UNCHANGED <<dirExists, files, processed_bytes, current_zim_path, file_cache,
                   cleanRan>>

\* a clearing that leaves current_zim_path as it is
CleanLockPathKeeps(p) ==
    /\ req[p].pc = "clean_lock_path"
    /\ CanLock("current_zim_path")
    /\ mutex' = Lock(mutex, "current_zim_path", p)
    /\ Goto(p, "clean_lock_cache")
    /\ UNCHANGED <<dirExists, files, processed_bytes, shared, cleanRan>>

\* current_zim_path is locked (uploaded_files still held) and set to None
CleanLockPath(p) ==
    /\ req[p].pc = "clean_lock_path"
    /\ CanLock("current_zim_path")
    /\ mutex' = Lock(mutex, "current_zim_path", p)
    /\ current_zim_path' = None
    /\ Goto(p, "clean_lock_cache")
    /\ UNCHANGED <<dirExists, files, processed_bytes, uploaded_files, file_cache,
                   cleanRan>>

\* file_cache is locked (the other two still held) and cleared; the request
\* answers 200 "Cache cleaned successfully" and the three guards are dropped
CleanLockCache(p) ==
    /\ req[p].pc = "clean_lock_cache"
    /\ CanLock("file_cache")
    /\ file_cache' = EmptyMap
    /\ mutex' = Unlock(mutex, {"uploaded_files", "current_zim_path"})
    /\ Return(p, "cleaned")
    /\ UNCHANGED <<dirExists, files, processed_bytes, uploaded_files,
                   current_zim_path, cleanRan>>

CleanCache(p) ==
    \/ CleanStart(p) \/ CleanExists(p) \/ RemoveDirAll(p)
    \/ CleanLockFiles(p) \/ CleanLockPath(p) \/ CleanLockCache(p)

(* ------------------------------ article ------------------------------- *)

\* GET /article/{title} arrives and its title is decoded
ArticleStart(p) ==
    /\ req[p].pc = "idle"
    /\ Goto(p, "article_lock")
    /\ UNCHANGED <<dirExists, files, processed_bytes, shared, mutex, cleanRan>>

\* current_zim_path is locked; None answers 400 "No ZIM loaded"
ArticleLock(p) ==
    /\ req[p].pc = "article_lock"
    /\ CanLock("current_zim_path")
    /\ IF current_zim_path = None
       THEN /\ Return(p, "article_400")
            /\ UNCHANGED mutex
       ELSE /\ Goto(p, "article_open")
            /\ mutex' = Lock(mutex, "current_zim_path", p)
    /\ UNCHANGED <<dirExists, files, processed_bytes, shared, cleanRan>>

\* the four ways the work on the archive ends, as positions of the request
ArticleOutcomePcs == {"article_open_failed", "article_not_found",
                      "article_unreadable", "article_found"}

\* every outcome answered as a server error
ArticleStatusAll500(outcome) == "article_500"

\* the answer to each outcome: "Failed to open ZIM archive" is 500, "Article
\* not found" and "Article found but failed to read content" are 404, the
\* content is 200
ArticleStatus(outcome) ==
    CASE outcome = "article_open_failed" -> "article_500"
      [] outcome = "article_not_found"   -> "article_404"
      [] outcome = "article_unreadable"  -> "article_404"
      [] outcome = "article_found"       -> "article_200"

\* Archive::new(path), get_entry_bytitle_str, get_item and get_data under
\* the guard: the archive cannot be opened (always so when the file is
\* missing), or holds no such title, or holds an entry that cannot be read,
\* or yields the content; the path is valid UTF-8, so to_str() is Some
ArticleOpen(p) ==
    /\ req[p].pc = "article_open"
    /\ \E outcome \in IF Unwrap(current_zim_path) \in DOMAIN files
                      THEN ArticleOutcomePcs
                      ELSE {"article_open_failed"} :
         Goto(p, outcome)
    /\ UNCHANGED <<dirExists, files, processed_bytes, shared, mutex, cleanRan>>

\* the response is returned and the guard is dropped
ArticleRespond(p) ==
    /\ req[p].pc \in ArticleOutcomePcs
    /\ Return(p, ArticleStatus(req[p].pc))
    /\ mutex' = Unlock(mutex, {"current_zim_path"})
    /\ UNCHANGED <<dirExists, files, processed_bytes, shared, cleanRan>>

Article(p) ==
    ArticleStart(p) \/ ArticleLock(p) \/ ArticleOpen(p) \/ ArticleRespond(p)

(* --------------------------- specification ---------------------------- *)

Next == \E p \in Procs : Upload(p) \/ CleanCache(p) \/ Article(p)

Spec == Init /\ [][Next]_vars

(* ------------------------- positions and locks ------------------------ *)

\* the positions of an upload before its cache lookup: the body is read
ReadingPcs == {"create_dir", "next_field", "next_chunk"}
\* the positions of an upload from its cache lookup on
IngestPcs == {"lock_file_cache", "hit_lock_path", "file_create", "write_all",
              "lock_uploaded_files", "lock_current_path", "insert_cache"}
\* the positions of a clean_cache after its bulk delete, before it is done
\* clearing the three structures
ClearingPcs == {"clean_lock_files", "clean_lock_path", "clean_lock_cache"}

\* the Mutex a request locks at each of its lock() calls
WantsAt == [lock_file_cache     |-> "file_cache",
            hit_lock_path       |-> "current_zim_path",
            lock_uploaded_files |-> "uploaded_files",
            lock_current_path   |-> "current_zim_path",
            clean_lock_files    |-> "uploaded_files",
            clean_lock_path     |-> "current_zim_path",
            clean_lock_cache    |-> "file_cache",
            article_lock        |-> "current_zim_path"]

\* request p is inside lock(), waiting for the guard another request holds
Blocked(p) ==
    /\ req[p].pc \in DOMAIN WantsAt
    /\ mutex[WantsAt[req[p].pc]] # 0

\* request p takes the step
Steps(p) == req'[p] # req[p]

\* the digest of a whole byte sequence
Digest(bytes) == HashOf(Sha256Update(Sha256New, bytes))

(* ------------------------------- claims ------------------------------- *)

\* C1: uploading content that an earlier upload stored (no clean_cache in
\* between) is a hit.  (a) The upload that stores a content leaves the
\* entry hash -> <root>/hash.zim in CacheIndex; (b) no step other than a
\* clean_cache step removes or changes an entry; (c) an upload whose lookup
\* finds the entry takes the hit path and (d) from there writes no file,
\* leaves CacheIndex as it is, returns "found in cache" and sets
\* ActiveDataset to the path of the entry, the one the first upload made.
C1_Step ==
    \A p \in Procs :
      /\ (req[p].pc = "insert_cache" /\ Steps(p)) =>
            /\ response' = "uploaded"
            /\ hash(p) \in DOMAIN file_cache'
            /\ file_cache'[hash(p)] = PersistedPath(hash(p))
      /\ (req[p].pc \notin ClearingPcs /\ Steps(p)) =>
            \A h \in DOMAIN file_cache :
               h \in DOMAIN file_cache' /\ file_cache'[h] = file_cache[h]
      /\ (req[p].pc = "lock_file_cache" /\ Steps(p)
            /\ hash(p) \in DOMAIN file_cache) =>
            /\ req'[p].pc = "hit_lock_path"
            /\ UNCHANGED <<files, file_cache>>
      /\ (req[p].pc = "hit_lock_path" /\ Steps(p)) =>
            /\ req'[p].pc = "idle" /\ response' = "cached"
            /\ UNCHANGED <<files, file_cache>>
            /\ hash(p) \in DOMAIN file_cache
            /\ current_zim_path' = Some(file_cache[hash(p)])
            /\ current_zim_path' = Some(PersistedPath(hash(p)))
Thm_C1 == [][C1_Step]_vars

\* C1 witness: with no clean_cache so far, an upload has just returned
\* "found in cache": ActiveDataset names the stored archive of an entry
\* that an earlier upload of the same bytes made
Wit_C1 ==
    /\ ~cleanRan
    /\ response = "cached"
    /\ \A p \in Procs : req[p].pc = "idle"
    /\ \E h \in DOMAIN file_cache :
         /\ current_zim_path = Some(file_cache[h])
         /\ file_cache[h] \in DOMAIN files
         /\ Digest(files[file_cache[h]]) = h

\* C2 (as claimed): while no clean_cache has run, the stored file of a
\* content is created exactly once: File::create on the miss path never
\* meets a file that an earlier upload of the same content created
CE_C2 ==
    [][\A p \in Procs :
         (~cleanRan /\ req[p].pc = "file_create" /\ req'[p].pc = "write_all")
            => persisted_path(p) \notin DOMAIN files]_vars

\* C3 (as claimed): an upload that stores a content not yet in the
\* registry adds one UploadedFilesRegistry entry and overwrites none, also
\* when its original file name is already a key
CE_C3 ==
    [][\A p \in Procs :
         (req[p].pc = "lock_uploaded_files" /\ Steps(p)
            /\ persisted_path(p) \notin Values(uploaded_files))
            => /\ \A n \in DOMAIN uploaded_files :
                    n \in DOMAIN uploaded_files'
                    /\ uploaded_files'[n] = uploaded_files[n]
               /\ Cardinality(DOMAIN uploaded_files')
                    = Cardinality(DOMAIN uploaded_files) + 1]_vars

\* C4 (as claimed): at the moment a clean_cache returns success (either of
\* its two 200 answers), CacheIndex, UploadedFilesRegistry and
\* ActiveDataset are empty/unset and the storage root holds no file
CE_C4 ==
    [][\A p \in Procs :
         (req[p].pc \in {"clean_exists", "clean_lock_cache"}
            /\ req'[p].pc = "idle")
            => /\ file_cache' = EmptyMap
               /\ uploaded_files' = EmptyMap
               /\ current_zim_path' = None
               /\ files' = EmptyMap]_vars

\* C5 (as claimed): no set of requests is deadlocked, each of them inside
\* lock() waiting for a guard that another request of the set holds
CE_C5 ==
    ~ \E S \in (SUBSET Procs) \ {{}} :
        \A p \in S : Blocked(p) /\ mutex[WantsAt[req[p].pc]] \in S \ {p}

\* C6 (as claimed): while a clean_cache is between its bulk delete and the
\* end of its clearing of the three structures, no upload does a cache
\* lookup, a file write or a registry / ActiveDataset / CacheIndex update
CE_C6 ==
    [][(\E c \in Procs : req[c].pc \in ClearingPcs)
         => \A p \in Procs : ~(req[p].pc \in IngestPcs /\ Steps(p))]_vars

\* C7 (as claimed): every path of a CacheIndex entry and the path in
\* ActiveDataset name a file that exists in storage, at every state
CE_C7 ==
    /\ \A h \in DOMAIN file_cache : file_cache[h] \in DOMAIN files
    /\ \A path \in current_zim_path : path \in DOMAIN files

\* C8: a clean_cache whose remove_dir_all fails (always so when the
\* directory is gone by then) answers 500 and leaves CacheIndex,
\* UploadedFilesRegistry and ActiveDataset as they are
C8_Step ==
    \A p \in Procs :
      (req[p].pc = "remove_dir_all" /\ Steps(p)
         /\ (~dirExists \/ dirExists' \/ req'[p].pc = "idle"))
         => /\ req'[p].pc = "idle"
            /\ response' = "clean_500"
            /\ UNCHANGED shared
            /\ UNCHANGED mutex
Thm_C8 == [][C8_Step]_vars

\* C8 witness: a clean_cache has answered 500 after deleting part of the
\* files, and the three structures still hold what the uploads put there
Wit_C8 ==
    /\ response = "clean_500"
    /\ \A p \in Procs : req[p].pc = "idle"
    /\ file_cache # EmptyMap /\ uploaded_files # EmptyMap
    /\ current_zim_path # None
    /\ \E h \in DOMAIN file_cache : file_cache[h] \notin DOMAIN files

\* C9: an upload whose File::create or write_all fails returns a server
\* error and changes none of CacheIndex, UploadedFilesRegistry and
\* ActiveDataset; an upload that misses changes them only at the steps
\* that follow the successful write_all
C9_Step ==
    \A p \in Procs :
      /\ (req[p].pc \in {"file_create", "write_all"} /\ req'[p].pc = "idle") =>
            /\ response' = "upload_500"
            /\ UNCHANGED shared
      /\ (req[p].pc \in {"file_create", "write_all"} /\ Steps(p)) =>
            UNCHANGED shared
      /\ (req[p].pc = "write_all" /\ req'[p].pc = "lock_uploaded_files"
            /\ persisted_path(p) \in DOMAIN files) =>
            files'[persisted_path(p)] = req[p].file_data
Thm_C9 == [][C9_Step]_vars

\* C9 witness: with no clean_cache so far, an upload has returned a server
\* error after a failed write_all: storage holds a file with only part of
\* the bytes of its name, and no structure has an entry for it
Wit_C9 ==
    /\ ~cleanRan
    /\ response = "upload_500"
    /\ \A p \in Procs : req[p].pc = "idle"
    /\ \E path \in DOMAIN files :
         /\ Digest(files[path]) # path.stem
         /\ path.stem \notin DOMAIN file_cache
         /\ path \notin Values(uploaded_files)
         /\ current_zim_path # Some(path)

\* C10: an upload that is still reading its body, up to and including the
\* step at which a malformed field or a chunk error aborts it, creates and
\* writes no file and changes none of CacheIndex, UploadedFilesRegistry
\* and ActiveDataset; the abort ends the ingestion with a transport error
C10_Step ==
    \A p \in Procs :
      /\ (req[p].pc \in ReadingPcs /\ Steps(p)) =>
            /\ UNCHANGED files
            /\ UNCHANGED shared
      /\ (req[p].pc \in {"next_field", "next_chunk"} /\ req'[p].pc = "idle") =>
            /\ response' = "transport_error"
            /\ req'[p] = Idle
            /\ UNCHANGED mutex
Thm_C10 == [][C10_Step]_vars

\* C10 witness: with no clean_cache so far, an upload was aborted by a
\* transport error after body bytes were consumed, and storage and the
\* three structures are as empty as at startup
Wit_C10 ==
    /\ ~cleanRan
    /\ response = "transport_error"
    /\ processed_bytes > 0
    /\ \A p \in Procs : req[p].pc = "idle"
    /\ files = EmptyMap /\ file_cache = EmptyMap
    /\ uploaded_files = EmptyMap /\ current_zim_path = None

\* C11 (as claimed): File::create on the miss path leaves a file that is
\* already present under the name of the hash as it is, neither truncated
\* nor overwritten
CE_C11 ==
    [][\A p \in Procs :
         (req[p].pc = "file_create" /\ Steps(p)
            /\ persisted_path(p) \in DOMAIN files)
            => /\ persisted_path(p) \in DOMAIN files'
               /\ files'[persisted_path(p)] = files[persisted_path(p)]]_vars

\* C12 (as claimed, at the states where no request is in progress): every
\* file under the storage root holds the bytes whose digest is the hash in
\* its name
CE_C12 ==
    (\A p \in Procs : req[p].pc = "idle")
       => \A path \in DOMAIN files : Digest(files[path]) = path.stem

(* ------------------- one ingestion in flight at a time ---------------- *)

\* the positions of an upload
UploadPcs == ReadingPcs \cup IngestPcs

\* no request other than p is an upload
NoOtherUpload(p) == \A q \in Procs \ {p} : req[q].pc \notin UploadPcs

\* the requests as in Next, except that an upload arrives only when no
\* other upload is in progress
NextSingle ==
    \E p \in Procs :
       \/ (NoOtherUpload(p) /\ UploadStart(p))
       \/ CreateDir(p) \/ NextField(p) \/ NextChunk(p)
       \/ CacheLookup(p) \/ HitSetPath(p) \/ FileCreate(p) \/ WriteAll(p)
       \/ LockUploadedFiles(p) \/ LockCurrentPath(p) \/ InsertCache(p)
       \/ CleanCache(p) \/ Article(p)

SpecSingle == Init /\ [][NextSingle]_vars

\* C13: with one ingestion in flight at a time, ProgressCounter is 0 at
\* startup and changes only in upload steps; the arrival of an upload
\* resets it to 0; while the upload goes on it never decreases and equals
\* the number of body bytes consumed so far, so that it is exactly N, the
\* length of the whole body, when the last chunk has been consumed
C13_Step ==
    /\ \A p \in Procs :
         /\ (req[p].pc = "idle" /\ req'[p].pc \in UploadPcs) =>
               processed_bytes' = 0
         /\ (req[p].pc \in UploadPcs /\ Steps(p)) =>
               /\ processed_bytes' >= processed_bytes
               /\ processed_bytes = Len(req[p].file_data)
               /\ req'[p].pc # "idle" =>
                     processed_bytes' = Len(req'[p].file_data)
               /\ req'[p].pc = "idle" => processed_bytes' = processed_bytes
         /\ (req[p].pc = "next_field" /\ req'[p].pc = "lock_file_cache") =>
               /\ req[p].file_data \in Bodies
               /\ processed_bytes' = Len(req[p].file_data)
    /\ (\A p \in Procs : ~(Steps(p) /\ (req[p].pc \in UploadPcs
                                         \/ req'[p].pc \in UploadPcs))) =>
          processed_bytes' = processed_bytes
Thm_C13 == processed_bytes = 0 /\ [][C13_Step]_vars

\* C13 witness: an upload has consumed a body of two bytes to its end and
\* the counter is 2
Wit_C13 ==
    \E p \in Procs :
       /\ req[p].pc = "lock_file_cache"
       /\ Len(req[p].file_data) = 2
       /\ processed_bytes = 2

(* --------------------------- process restart -------------------------- *)

\* the entries of the storage root; every file the program keeps there is a
\* regular file
ReadDir(F) == DOMAIN F

\* the part of a file name before its extension
FileStem(path) == path.stem

\* a scan that stops after the first entry of the storage root
StartupRecoveryFirstEntry(paths) ==
    IF paths = {} THEN EmptyMap
    ELSE LET path == CHOOSE q \in paths : TRUE
         IN  [h \in {FileStem(path)} |-> path]

\* the index main builds from the entries of the storage root: the stem of
\* each file name is the key, the path is the value; no file is opened
StartupRecovery(paths) ==
    [h \in {FileStem(path) : path \in paths} |->
        CHOOSE path \in paths : FileStem(path) = h]

\* the process stops, whatever its requests are doing, and main runs again:
\* the storage root is created when absent, the index is rebuilt from the
\* file names, and the rest of AppState starts empty
Restart ==
    /\ dirExists' = TRUE
    /\ files' = files
    /\ file_cache' = StartupRecovery(ReadDir(files))
    /\ uploaded_files' = EmptyMap
    /\ current_zim_path' = None
    /\ processed_bytes' = 0
    /\ mutex' = [l \in Locks |-> 0]
    /\ req' = [p \in Procs |-> Idle]
    /\ response' = "none"
    /\ cleanRan' = FALSE

\* uploads and clean_cache requests, interleaved in any way, and restarts;
\* the requests that only read AppState are left out
NextRestart ==
    \/ \E p \in Procs : Upload(p) \/ CleanCache(p)
    \/ Restart

SpecRestart == Init /\ [][NextRestart]_vars

\* C14: the index built at startup has exactly one entry for each file of
\* the storage root, keyed by the hash in the file's name and holding the
\* file's path; the scan leaves every file as it was, and a second scan of
\* the same directory builds the same index
C14_Step ==
    Restart =>
       /\ files' = files
       /\ \A path \in DOMAIN files :
             /\ FileStem(path) \in DOMAIN file_cache'
             /\ file_cache'[FileStem(path)] = path
             /\ Cardinality({h \in DOMAIN file_cache' :
                               file_cache'[h] = path}) = 1
       /\ \A h \in DOMAIN file_cache' :
             /\ file_cache'[h] \in DOMAIN files
             /\ file_cache'[h] = PersistedPath(h)
       /\ StartupRecovery(ReadDir(files')) = file_cache'
Thm_C14 == [][C14_Step]_vars

\* C14 witness: the process has just started over a storage root that holds
\* a file, and the file is indexed
Wit_C14 ==
    /\ \A p \in Procs : req[p].pc = "idle"
    /\ response = "none"
    /\ DOMAIN files # {}
    /\ file_cache = StartupRecovery(ReadDir(files))
    /\ uploaded_files = EmptyMap

(* ------------------------------- search ------------------------------- *)

\* get_results(0, 50): the most entries a search asks the collaborator for
MaxResults == 50
\* the longest hit list an archive holds for one query
MaxHits == 51

\* str::to_lowercase, on the characters of the queries
LowerChar(c) == IF c = "A" THEN "a" ELSE c
ToLowercase(q) == [i \in DOMAIN q |-> LowerChar(q[i])]

\* the query strings of the clients
Queries == {<<"A">>, <<"a">>, <<"A", "b">>}

\* an entry of a result set: a readable entry with its title, or an error
Ok(t) == [ok |-> TRUE, title |-> t]
Err == [ok |-> FALSE, title |-> 0]

\* the hit lists an archive may hold for a query, in the collaborator's order
HitLists ==
    { <<>>, <<Err>>, <<Ok(2), Err, Ok(1)>>, [i \in 1..MaxHits |-> Ok(i)] }

Min(a, b) == IF a <= b THEN a ELSE b

\* a result set that hands over every hit
GetResultsAll(hits, start, max) == SubSeq(hits, start + 1, Len(hits))

\* search.get_results(start, max): at most max hits from offset start
GetResults(hits, start, max) ==
    SubSeq(hits, start + 1, Min(Len(hits), start + max))

\* into_iter().filter_map(..).collect(): the titles of the readable entries
RECURSIVE FilterMapTitles(_)
FilterMapTitles(v) ==
    IF v = <<>> THEN <<>>
    ELSE (IF Head(v).ok THEN <<Head(v).title>> ELSE <<>>)
            \o FilterMapTitles(Tail(v))

\* POST /search arrives; web::block hands search_zim_file to the blocking pool
SearchStart(p) ==
    /\ req[p].pc = "idle"
    /\ \E q \in Queries :
         req' = [req EXCEPT ![p] = [pc |-> "search_open", query |-> q,
                                    issued |-> <<>>, answers |-> <<>>,
                                    result_vec |-> <<>>, results |-> <<>>]]
    /\ UNCHANGED <<dirExists, files, processed_bytes, shared, mutex, response,
                   cleanRan>>

\* Archive::new and Searcher::new: either fails with an Err that becomes 500
SearchOpen(p) ==
    /\ req[p].pc = "search_open"
    /\ \/ Goto(p, "search_first")
       \/ Return(p, "search_500")
    /\ UNCHANGED <<dirExists, files, processed_bytes, shared, mutex, cleanRan>>

\* the query string q is put to the collaborator, which answers with one of
\* its hit lists or fails; the answer is cut by get_results(0, 50)
RunQuery(p, q, next) ==
    \/ \E hits \in HitLists :
         /\ req' = [req EXCEPT
                      ![p].issued = Append(@, q),
                      ![p].answers = Append(@, hits),
                      ![p].result_vec = GetResults(hits, 0, MaxResults),
                      ![p].pc = next[GetResults(hits, 0, MaxResults) = <<>>]]
         /\ UNCHANGED response
    \/ Return(p, "search_500")

\* the first query is the client's string; an empty result leads to the retry
SearchFirst(p) ==
    /\ req[p].pc = "search_first"
    /\ RunQuery(p, req[p].query,
                [b \in BOOLEAN |-> IF b THEN "search_retry"
                                        ELSE "search_collect"])
    /\ UNCHANGED <<dirExists, files, processed_bytes, shared, mutex, cleanRan>>

\* result_vec.is_empty(): one more query, with the lower-cased string
SearchRetry(p) ==
    /\ req[p].pc = "search_retry"
    /\ RunQuery(p, ToLowercase(req[p].query),
                [b \in BOOLEAN |-> "search_collect"])
    /\ UNCHANGED <<dirExists, files, processed_bytes, shared, mutex, cleanRan>>

\* the entries are turned into summaries, the unreadable ones dropped
SearchCollect(p) ==
    /\ req[p].pc = "search_collect"
    /\ req' = [req EXCEPT ![p].results = FilterMapTitles(req[p].result_vec),
                          ![p].pc = "search_done"]
    /\ UNCHANGED <<dirExists, files, processed_bytes, shared, mutex, response,
                   cleanRan>>

\* search_articles answers 200 with the list
SearchRespond(p) ==
    /\ req[p].pc = "search_done"
    /\ Return(p, "search_200")
    /\ UNCHANGED <<dirExists, files, processed_bytes, shared, mutex, cleanRan>>

Search(p) ==
    \/ SearchStart(p) \/ SearchOpen(p) \/ SearchFirst(p)
    \/ SearchRetry(p) \/ SearchCollect(p) \/ SearchRespond(p)

NextSearch == \E p \in Procs : Search(p)

SpecSearch == Init /\ [][NextSearch]_vars

SearchPcs == {"search_open", "search_first", "search_retry", "search_collect",
              "search_done"}

IsOk(e) == e.ok

\* C15: a search puts the client's string to the collaborator first; it puts
\* a second query, the lower-cased string, exactly when the first answer has
\* no result; it never puts a third; the list it returns has at most 50
\* entries, which are the titles of the readable entries among the first 50
\* of the last answer, in the collaborator's order
Thm_C15 ==
    \A p \in Procs :
       req[p].pc \in SearchPcs =>
          /\ Len(req[p].issued) <= 2
          /\ Len(req[p].answers) = Len(req[p].issued)
          /\ Len(req[p].issued) >= 1 => req[p].issued[1] = req[p].query
          /\ Len(req[p].issued) = 2 =>
                /\ req[p].issued[2] = ToLowercase(req[p].query)
                /\ req[p].answers[1] = <<>>
          /\ req[p].pc \in {"search_collect", "search_done"} =>
                /\ Len(req[p].issued) >= 1
                /\ req[p].answers[1] = <<>> => Len(req[p].issued) = 2
          /\ req[p].pc = "search_done" =>
                LET last == req[p].answers[Len(req[p].answers)]
                    kept == SelectSeq(SubSeq(last, 1, Min(Len(last), 50)), IsOk)
                IN  /\ Len(req[p].results) <= 50
                    /\ req[p].results = [i \in 1..Len(kept) |-> kept[i].title]

\* C15 witness: a search whose first query found nothing has put the second
\* query and returns 50 entries of an answer that holds more
Wit_C15 ==
    \E p \in Procs :
       /\ req[p].pc = "search_done"
       /\ Len(req[p].issued) = 2
       /\ Len(req[p].answers[2]) > 50
       /\ Len(req[p].results) = 50

(* ------------------------------ article ------------------------------- *)

ArticlePcs == {"article_lock", "article_open"} \cup ArticleOutcomePcs

\* C16: GET /article/{title} answers 400 whenever it finds ActiveDataset
\* unset, and only then; with ActiveDataset set it answers 404 when the
\* archive holds no such title and 500 when the archive cannot be opened;
\* no step of the request changes ActiveDataset, CacheIndex or
\* UploadedFilesRegistry
C16_Step ==
    \A p \in Procs :
       (req[p].pc \in ArticlePcs /\ Steps(p)) =>
          /\ UNCHANGED shared
          /\ (req[p].pc = "article_lock" /\ current_zim_path = None) =>
                (req'[p].pc = "idle" /\ response' = "article_400")
          /\ (req[p].pc = "article_lock" /\ current_zim_path # None) =>
                req'[p].pc = "article_open"
          /\ req[p].pc \in ArticleOutcomePcs =>
                /\ current_zim_path # None
                /\ req'[p].pc = "idle"
                /\ response' # "article_400"
          /\ req[p].pc = "article_not_found" => response' = "article_404"
          /\ req[p].pc = "article_open_failed" => response' = "article_500"
Thm_C16 == [][C16_Step]_vars

\* C16 witness: with ActiveDataset set and its file in storage, a request
\* for a title the archive does not hold has been answered 404
Wit_C16 ==
    /\ response = "article_404"
    /\ current_zim_path # None
    /\ Unwrap(current_zim_path) \in DOMAIN files
    /\ \A p \in Procs : req[p].pc = "idle"

(* ---------------------- collaborator calls and locks ------------------ *)

\* the positions whose code runs inside the closure given to web::block
BlockingPoolPcs == {"search_open", "search_first", "search_retry",
                    "search_collect"}

\* the positions from which the next step of a request calls into the
\* archive collaborator: Archive::new in article and after write_all in
\* upload, and every step of search_zim_file
CollaboratorPcs == {"article_open", "write_all"} \cup BlockingPoolPcs

\* the Mutexes request p holds
Held(p) == {l \in Locks : mutex[l] = p}

\* C17 (as claimed): a request that is about to call into the archive
\* collaborator runs on the blocking worker pool and holds none of the
\* shared-state locks
CE_C17 ==
    \A p \in Procs :
       req[p].pc \in CollaboratorPcs =>
          (req[p].pc \in BlockingPoolPcs /\ Held(p) = {})

\* the positions of a clean_cache request
CleanPcs == {"clean_exists", "remove_dir_all"} \cup ClearingPcs

\* C18 (as claimed): a request other than clean_cache holds at most one of
\* the three locks at any time
CE_C18 ==
    \A p \in Procs :
       req[p].pc \notin CleanPcs => Cardinality(Held(p)) <= 1

(* --------------------------- quiescent states ------------------------- *)

\* no request is in progress
Quiescent == \A p \in Procs : req[p].pc = "idle"

\* C19: whenever no request is in progress, whatever uploads, clean_cache
\* requests and restarts came before, every path of UploadedFilesRegistry
\* and the path of ActiveDataset, when set, is the value of a CacheIndex
\* entry, and every CacheIndex entry maps its hash h to <storage root>/h.zim
Thm_C19 ==
    Quiescent =>
       /\ Values(uploaded_files) \subseteq Values(file_cache)
       /\ current_zim_path \subseteq Values(file_cache)
       /\ \A h \in DOMAIN file_cache :
             file_cache[h] = [dir |-> "./uploads", stem |-> h, ext |-> "zim"]

\* C19 witness: no request is in progress, the registry and ActiveDataset
\* are set, and the index holds an entry taken over by a restart from a file
\* whose bytes are not those of its name
Wit_C19 ==
    /\ Quiescent
    /\ uploaded_files # EmptyMap
    /\ current_zim_path # None
    /\ \E h \in DOMAIN file_cache :
          /\ file_cache[h] \in DOMAIN files
          /\ Digest(files[file_cache[h]]) # h

\* C20 (as claimed): a restart at a state where no request is in progress
\* rebuilds the CacheIndex it had, keys and paths
CE_C20 ==
    [][(Quiescent /\ Restart) => file_cache' = file_cache]_vars

=============================================================================
